---- MODULE Spec2Model ----
(***************************************************************************)
(* Delivery orchestration and idempotency control plane of itnews_sender:  *)
(* the Lambda handler (lambda_handler.py) with the execution gate          *)
(* (execution_tracker.py), the failure circuit breaker                     *)
(* (failure_tracker.py) and the delivery history (delivery_tracker.py),    *)
(* run by several concurrent invocations against shared DynamoDB tables.   *)
(***************************************************************************)
EXTENDS Integers, Sequences, FiniteSets, TLC

(* ------------------------------ bounds --------------------------------- *)
\* number of invocations that may run concurrently
NInv == 2
\* total number of invocations ever started (each gets a fresh request id)
MaxRuns == 2
\* number of logical days (KST dates) the clock runs through
MaxDay == 2

\* number of active recipients
NRecipients == 1

\* length of the longest recipient list handed to send_bulk_email
MaxRecipients == 3

Invocations == 1..NInv
Days == 1..MaxDay

(* --------------------------- program constants ------------------------- *)
\* failure_tracker.py: "if failure_count >= 3"
FailureLimit == 3

\* values of event["mode"]; "absent" stands for an event without the key
EventModes == {"opr", "test", "dev", "absent"}
\* values of event["skip_idempotency"]; "absent" is an event without the key,
\* which reads as False
EventFlags == {"absent", "true"}
Modes == {"opr", "test", "dev"}

\* config.py: SMTP_MAX_RETRIES = 3
SMTP_MAX_RETRIES == 3

\* the days of the modelled calendar that are Wednesdays (KST)
WednesdayDays == {2}

\* active recipients of the recipients table
Recipients == 1..NRecipients

\* answers of a DynamoDB call: done, or an exception other than the failed
\* condition check (the trackers treat ClientError and Exception alike)
StoreResponses == {"ok", "error"}

\* DynamoDB tables are functions from the keys that have an item to the item
Put(tbl, key, item) == [k \in DOMAIN tbl \cup {key} |-> IF k = key THEN item ELSE tbl[k]]
Delete(tbl, key) == [k \in DOMAIN tbl \ {key} |-> tbl[k]]
EmptyTable == [k \in {} |-> 0]
NoResult == [statusCode |-> 0, skipped |-> FALSE, reason |-> "none"]

NoNotice == [called |-> FALSE, transmissions |-> 0, raised |-> FALSE]
NoBulkResult == [returned |-> FALSE, success |-> FALSE, emails |-> <<>>]

VARIABLES
    now,          \* current logical day, datetime.now(kst) as a date
    runs,         \* invocations started so far
    executions,   \* table etnews-execution-log: execution_key -> item
    failures,     \* table etnews-delivery-failures: date -> failure_count
    deliveries,   \* table of DeliveryTracker: delivery_date -> item
    event,        \* event of the invocation in each slot
    request_id,   \* context.aws_request_id of the invocation in each slot
    pc,           \* position of each invocation in handler
    calls,        \* collaborator calls each invocation has made, in order
    resp,         \* answer of the store to the call of the invocation's latest step
    count,        \* handler local count, the value of increment_failure
    success_emails, \* handler local success_emails
    result,       \* value returned by handler
    notice,       \* what _send_admin_notification did for each invocation
    acquired,     \* per execution key, how often mark_execution returned True
    icloud_success, \* handler local icloud_success, or that the upload raised
    paths,        \* handler locals among the three path variables that are set
    tmp,          \* temporary files written for each invocation that exist
    sends,        \* per day and recipient, the sends that succeeded for opr
                  \* invocations without skip_idempotency
    recipients,   \* send_bulk_email: the list get_active_recipients returned
    bulk_pc,      \* send_bulk_email: position of the call
    idx,          \* send_bulk_email: position of the for loop in recipients
    bulk_success_emails, \* send_bulk_email: local success_emails
    fail_count,   \* send_bulk_email: local fail_count
    retry_count,  \* _send_via_smtp: local retry_count
    attempts,     \* per position of recipients, SMTP conversations started for it
    threw,        \* positions of recipients whose send raised into the loop
    bulk_result,  \* value returned by send_bulk_email
    outcome,      \* what handler does with that value
    active,       \* the active recipients of the recipients table
    delivered_today, \* value the latest call of is_delivered_today returned
    marked,       \* (day, email) handed to a mark_as_delivered that returned True
    error_msg,    \* str(e) of the exception a stage of handler raised
    raised_at,    \* the call of handler that raised it
    redact_pc,    \* how far handler has dealt with the exception
    last_error,   \* last_error written to the failure record
    notify_message, \* error text in the message handed to _send_admin_notification
    response_error  \* 'error' of the body handler returns

\* the variables of handler and of the tables
handler_vars == <<now, runs, executions, failures, deliveries, event, request_id,
                  pc, calls, resp, count, success_emails, result, notice, acquired,
                  icloud_success, paths, tmp, sends>>

\* the variables of one call of send_bulk_email
sender_vars == <<recipients, bulk_pc, idx, bulk_success_emails, fail_count,
                 retry_count, attempts, threw, bulk_result, outcome>>

\* the variables of the delivery history used on its own
ledger_vars == <<active, delivered_today, marked>>

\* the variables of the error text on its way through handler
redact_vars == <<error_msg, raised_at, redact_pc, last_error, notify_message,
                 response_error>>

vars == <<now, runs, executions, failures, deliveries, event, request_id,
          pc, calls, resp, count, success_emails, result, notice, acquired,
          icloud_success, paths, tmp, sends,
          recipients, bulk_pc, idx, bulk_success_emails, fail_count,
          retry_count, attempts, threw, bulk_result, outcome,
          active, delivered_today, marked,
          error_msg, raised_at, redact_pc, last_error, notify_message,
          response_error>>

shared == <<now, runs, executions, failures, deliveries, acquired>>

ExecutionKeys == Days \X Modes

(* ------------------------------ handler locals ------------------------- *)
\* mode = event.get("mode", "test")
ModeOf(ev) == IF ev.mode = "absent" THEN "test" ELSE ev.mode

\* is_test_mode = (mode != "opr")
IsTestMode(ev) == ModeOf(ev) # "opr"

\* mutant: the bypass is the default, switched off only by an explicit flag
SkipIdempotencyByDefault(ev) == ev.skip_idempotency # "false"

\* skip_idempotency = event.get("skip_idempotency", False)
SkipIdempotency(ev) == ev.skip_idempotency = "true"

\* mutant: the result of mark_execution is ignored
GateClosedNever(ret) == FALSE

\* if not exec_tracker.mark_execution(mode, request_id)
GateClosed(ret) == ~ret

\* if count >= 3
NotifyDue(c) == c >= 3

\* _send_admin_notification: the whole body is inside try/except Exception,
\* so nothing is raised. Its "config = Config()" calls the ConfigClass
\* instance that config.py binds to Config, which is a TypeError, so the
\* except branch is taken before any SMTP conversation is started.
SendAdminNotification ==
    [called |-> TRUE, transmissions |-> 0, raised |-> FALSE]

(* --------------------------- execution tracker ------------------------- *)
\* _get_today_date of the three trackers: the KST date at the time of call
GetTodayDate == now

\* mutant: the key is built from the date alone
GetExecutionKeyOfDay(mode) == <<GetTodayDate, "opr">>

\* mutant: the key tells opr from test mode only
GetExecutionKeyByTestMode(mode) ==
    <<GetTodayDate, IF mode = "opr" THEN "opr" ELSE "test">>

\* _get_execution_key: f"{today}#{mode}"
GetExecutionKey(mode) == <<GetTodayDate, mode>>

\* mutant: put_item without the ConditionExpression
MarkExecutionUnconditional(mode, rid, rs) ==
    IF rs # "ok"
    THEN [ret |-> FALSE, tbl |-> executions]
    ELSE [ret |-> TRUE,
          tbl |-> Put(executions, GetExecutionKey(mode),
                      [request_id |-> rid, mode |-> mode, date |-> GetTodayDate])]

\* mutant: the conflict is reported, but the put has replaced the record
MarkExecutionRestamp(mode, rid, rs) ==
    IF rs # "ok"
    THEN [ret |-> FALSE, tbl |-> executions]
    ELSE [ret |-> GetExecutionKey(mode) \notin DOMAIN executions,
          tbl |-> Put(executions, GetExecutionKey(mode),
                      [request_id |-> rid, mode |-> mode, date |-> GetTodayDate])]

\* mark_execution: conditional put; False on the creation conflict and on
\* every other error of the store
MarkExecution(mode, rid, rs) ==
    IF rs # "ok"
    THEN [ret |-> FALSE, tbl |-> executions]
    ELSE IF GetExecutionKey(mode) \in DOMAIN executions
         THEN [ret |-> FALSE, tbl |-> executions]
         ELSE [ret |-> TRUE,
               tbl |-> Put(executions, GetExecutionKey(mode),
                           [request_id |-> rid, mode |-> mode, date |-> GetTodayDate])]

(* ---------------------------- failure tracker -------------------------- *)
\* mutant: threshold off by one (failure_count > 3)
ShouldSkipTodayStrict(rs) ==
    IF rs # "ok" THEN FALSE
    ELSE IF GetTodayDate \notin DOMAIN failures THEN FALSE
    ELSE failures[GetTodayDate] > FailureLimit

\* mutant: a failed read counts as a tripped breaker
ShouldSkipTodayFailClosed(rs) ==
    IF rs # "ok" THEN TRUE
    ELSE IF GetTodayDate \notin DOMAIN failures THEN FALSE
    ELSE failures[GetTodayDate] >= FailureLimit

\* should_skip_today: False when the read fails
ShouldSkipToday(rs) ==
    IF rs # "ok" THEN FALSE
    ELSE IF GetTodayDate \notin DOMAIN failures THEN FALSE
    ELSE failures[GetTodayDate] >= FailureLimit

\* mutant: read-then-put that restarts the count instead of ADD
IncrementFailureOverwrite(rs) ==
    IF rs # "ok"
    THEN [ret |-> 1, tbl |-> failures]
    ELSE [ret |-> 1, tbl |-> Put(failures, GetTodayDate, 1)]

\* mutant: the update is keyed by a fixed date instead of today's
IncrementFailureFixedKey(rs) ==
    IF rs # "ok"
    THEN [ret |-> 1, tbl |-> failures]
    ELSE LET old == IF 1 \notin DOMAIN failures THEN 0 ELSE failures[1]
         IN  [ret |-> old + 1, tbl |-> Put(failures, 1, old + 1)]

\* increment_failure: atomic ADD failure_count 1, returns the new count;
\* returns 1 when the update fails
IncrementFailure(rs) ==
    IF rs # "ok"
    THEN [ret |-> 1, tbl |-> failures]
    ELSE LET old == IF GetTodayDate \notin DOMAIN failures THEN 0
                    ELSE failures[GetTodayDate]
         IN  [ret |-> old + 1, tbl |-> Put(failures, GetTodayDate, old + 1)]

\* mutant: decrement instead of delete
ResetTodayDecrement(rs) ==
    IF rs # "ok"
    THEN [ret |-> FALSE, tbl |-> failures]
    ELSE [ret |-> TRUE,
          tbl |-> IF GetTodayDate \notin DOMAIN failures THEN failures
                  ELSE IF failures[GetTodayDate] <= 1 THEN Delete(failures, GetTodayDate)
                  ELSE Put(failures, GetTodayDate, failures[GetTodayDate] - 1)]

\* reset_today: delete_item of today's record; False when the delete fails
ResetToday(rs) ==
    IF rs # "ok"
    THEN [ret |-> FALSE, tbl |-> failures]
    ELSE [ret |-> TRUE, tbl |-> Delete(failures, GetTodayDate)]

(* ---------------------------- delivery tracker ------------------------- *)
\* mark_as_delivered: put_item of today's item, which overwrites; False when
\* the put fails
MarkAsDelivered(recipient_count, rs) ==
    IF rs # "ok"
    THEN [ret |-> FALSE, tbl |-> deliveries]
    ELSE [ret |-> TRUE, tbl |-> Put(deliveries, GetTodayDate, recipient_count)]

\* is_delivered_today: True when today's item exists, whoever it was
\* written for; False without the item and when the read fails
IsDeliveredToday(rs) ==
    IF rs # "ok" THEN FALSE
    ELSE GetTodayDate \in DOMAIN deliveries

(* --------------------------------- handler ----------------------------- *)
\* the three locals handler hands to cleanup_temp_files
TempPaths == {"pdf_path", "processed_pdf_path", "itfind_pdf_path"}

\* cleanup_temp_files(pdf_path, processed_pdf_path, itfind_pdf_path): every
\* path that is set and exists is removed; an os.remove that raises is
\* logged and its file stays. /tmp lets the files be removed, or it refuses
\* the removal of each of them.
CleanupTempFiles(i) ==
    /\ \E kept \in {{}, paths[i] \cap tmp[i]} :
          tmp' = [tmp EXCEPT ![i] = (tmp[i] \ paths[i]) \cup kept]
    /\ UNCHANGED paths

\* mutant: the outer except lets the exception go on to the trigger
ReturnOrPropagate(i, cs, code, skipped, reason) ==
    /\ pc' = [pc EXCEPT ![i] = "done"]
    /\ calls' = [calls EXCEPT ![i] = calls[i] \o cs \o <<"cleanup_temp_files">>]
    /\ result' = [result EXCEPT ![i] =
                     IF code = 500 THEN NoResult
                     ELSE [statusCode |-> code, skipped |-> skipped, reason |-> reason]]
    /\ CleanupTempFiles(i)
    /\ UNCHANGED <<notice, icloud_success>>

\* a return of handler: the finally block runs cleanup_temp_files
Return(i, cs, code, skipped, reason) ==
    /\ pc' = [pc EXCEPT ![i] = "done"]
    /\ calls' = [calls EXCEPT ![i] = calls[i] \o cs \o <<"cleanup_temp_files">>]
    /\ result' = [result EXCEPT ![i] =
                     [statusCode |-> code, skipped |-> skipped, reason |-> reason]]
    /\ CleanupTempFiles(i)
    /\ UNCHANGED <<notice, icloud_success>>

\* the call of _send_admin_notification in handler, wrapped in try/except
\* Exception, followed by a return of handler
NotifyAndReturn(i, cs, code, skipped, reason) ==
    /\ notice' = [notice EXCEPT ![i] = SendAdminNotification]
    /\ pc' = [pc EXCEPT ![i] = "done"]
    /\ calls' = [calls EXCEPT ![i] = calls[i] \o cs
                      \o <<"_send_admin_notification", "cleanup_temp_files">>]
    /\ result' = [result EXCEPT ![i] =
                     [statusCode |-> code, skipped |-> skipped, reason |-> reason]]
    /\ CleanupTempFiles(i)
    /\ UNCHANGED icloud_success

\* a step of handler that goes on to the next stage
Goto(i, cs, next) ==
    /\ pc' = [pc EXCEPT ![i] = next]
    /\ calls' = [calls EXCEPT ![i] = calls[i] \o cs]
    /\ UNCHANGED <<result, notice, icloud_success, paths, tmp>>

\* a step of handler that goes on to the next stage with the locals in set
\* and the files in written added to what it has
GotoWith(i, cs, next, set, written) ==
    /\ pc' = [pc EXCEPT ![i] = next]
    /\ calls' = [calls EXCEPT ![i] = calls[i] \o cs]
    /\ paths' = [paths EXCEPT ![i] = paths[i] \cup set]
    /\ tmp' = [tmp EXCEPT ![i] = tmp[i] \cup written]
    /\ UNCHANGED <<result, notice, icloud_success>>

\* a returned result is handed to the trigger before anything else happens
NoneDone == \A j \in Invocations : pc[j] # "done"

Idle(i) ==
    /\ event' = [event EXCEPT ![i] = [mode |-> "absent", skip_idempotency |-> "absent"]]
    /\ request_id' = [request_id EXCEPT ![i] = 0]
    /\ pc' = [pc EXCEPT ![i] = "idle"]
    /\ calls' = [calls EXCEPT ![i] = <<>>]
    /\ resp' = [resp EXCEPT ![i] = "none"]
    /\ count' = [count EXCEPT ![i] = 0]
    /\ success_emails' = [success_emails EXCEPT ![i] = {}]
    /\ result' = [result EXCEPT ![i] = NoResult]
    /\ notice' = [notice EXCEPT ![i] = NoNotice]
    /\ icloud_success' = [icloud_success EXCEPT ![i] = "none"]
    /\ paths' = [paths EXCEPT ![i] = {}]
    /\ tmp' = [tmp EXCEPT ![i] = {}]

\* no call of send_bulk_email is under way
SenderIdle ==
    /\ bulk_pc = "idle"
    /\ idx = 0
    /\ bulk_success_emails = <<>>
    /\ fail_count = 0
    /\ retry_count = 0
    /\ attempts = <<>>
    /\ threw = {}
    /\ bulk_result = NoBulkResult
    /\ outcome = "none"

\* the delivery history is not used on its own
LedgerIdle ==
    /\ active = {}
    /\ delivered_today = "none"
    /\ marked = {}

\* no exception is on its way through handler
RedactIdle ==
    /\ error_msg = <<>>
    /\ raised_at = "none"
    /\ redact_pc = "idle"
    /\ last_error = <<>>
    /\ notify_message = <<>>
    /\ response_error = <<>>

\* The tables start empty, or with the failure record that two failed
\* downloads of invocations run with skip_idempotency leave behind.
HandlerInit ==
    /\ now = 1
    /\ runs = 0
    /\ executions = EmptyTable
    /\ failures \in {EmptyTable, [d \in {1} |-> FailureLimit - 1]}
    /\ deliveries = EmptyTable
    /\ acquired = [k \in ExecutionKeys |-> 0]
    /\ event = [i \in Invocations |-> [mode |-> "absent", skip_idempotency |-> "absent"]]
    /\ request_id = [i \in Invocations |-> 0]
    /\ pc = [i \in Invocations |-> "idle"]
    /\ calls = [i \in Invocations |-> <<>>]
    /\ resp = [i \in Invocations |-> "none"]
    /\ count = [i \in Invocations |-> 0]
    /\ success_emails = [i \in Invocations |-> {}]
    /\ result = [i \in Invocations |-> NoResult]
    /\ notice = [i \in Invocations |-> NoNotice]
    /\ icloud_success = [i \in Invocations |-> "none"]
    /\ paths = [i \in Invocations |-> {}]
    /\ tmp = [i \in Invocations |-> {}]
    /\ sends = [k \in Days \X Recipients |-> 0]

Init ==
    /\ HandlerInit
    /\ recipients = <<>>
    /\ SenderIdle
    /\ LedgerIdle
    /\ RedactIdle

\* the KST date changes
Tick ==
    /\ UNCHANGED <<sender_vars, ledger_vars, redact_vars>>
    /\ UNCHANGED sends
    /\ NoneDone
    /\ now < MaxDay
    /\ now' = now + 1
    /\ UNCHANGED <<runs, executions, failures, deliveries, acquired, event,
                   request_id, pc, calls, resp, count, success_emails, result,
                   notice, icloud_success, paths, tmp>>

\* a trigger delivers an event: handler starts in the first free slot
Start(i) ==
    /\ UNCHANGED <<sender_vars, ledger_vars, redact_vars>>
    /\ UNCHANGED sends
    /\ NoneDone
    /\ pc[i] = "idle"
    /\ \A j \in Invocations : j < i => pc[j] # "idle"
    /\ runs < MaxRuns
    /\ \E m \in EventModes, f \in EventFlags :
          event' = [event EXCEPT ![i] = [mode |-> m, skip_idempotency |-> f]]
    /\ runs' = runs + 1
    /\ request_id' = [request_id EXCEPT ![i] = runs + 1]
    /\ pc' = [pc EXCEPT ![i] = "gate"]
    /\ UNCHANGED <<now, executions, failures, deliveries, acquired,
                   calls, resp, count, success_emails, result, notice,
                   icloud_success, paths, tmp>>

\* handler, step 0 with skip_idempotency set: warning only
GateBypass(i) ==
    /\ UNCHANGED <<sender_vars, ledger_vars, redact_vars>>
    /\ UNCHANGED sends
    /\ NoneDone
    /\ pc[i] = "gate"
    /\ SkipIdempotency(event[i])
    /\ Goto(i, <<>>, "breaker")
    /\ UNCHANGED <<shared, event, request_id, resp, count, success_emails>>

\* handler, step 0: exec_tracker.mark_execution(mode, request_id)
GateCheck(i) ==
    /\ UNCHANGED <<sender_vars, ledger_vars, redact_vars>>
    /\ UNCHANGED sends
    /\ NoneDone
    /\ pc[i] = "gate"
    /\ ~SkipIdempotency(event[i])
    /\ \E rs \in StoreResponses :
          LET r == MarkExecution(ModeOf(event[i]), request_id[i], rs)
          IN  /\ executions' = r.tbl
              /\ resp' = [resp EXCEPT ![i] = rs]
              /\ acquired' = IF r.ret
                             THEN [acquired EXCEPT ![GetExecutionKey(ModeOf(event[i]))] = @ + 1]
                             ELSE acquired
              /\ IF GateClosed(r.ret)
                 THEN Return(i, <<"mark_execution">>, 200, TRUE, "already_executed_today")
                 ELSE Goto(i, <<"mark_execution">>, "breaker")
    /\ UNCHANGED <<now, runs, failures, deliveries, event, request_id,
                   count, success_emails>>

\* handler, step 1 when should_skip_today() is True: the notification, then
\* the skipped result
BreakerTripped(i) ==
    NotifyAndReturn(i, <<"should_skip_today">>, 200, TRUE, "too_many_failures")

\* handler, step 1: failure_tracker.should_skip_today()
BreakerCheck(i) ==
    /\ UNCHANGED <<sender_vars, ledger_vars, redact_vars>>
    /\ UNCHANGED sends
    /\ NoneDone
    /\ pc[i] = "breaker"
    /\ \E rs \in StoreResponses :
          /\ resp' = [resp EXCEPT ![i] = rs]
          /\ IF ShouldSkipToday(rs)
             THEN BreakerTripped(i)
             ELSE Goto(i, <<"should_skip_today">>, "fetch")
    /\ UNCHANGED <<shared, event, request_id, count, success_emails>>

\* handler, step 2-1: the weekly ITFIND download is called on Wednesdays;
\* whatever it answers, the run goes on
Weekly == IF GetTodayDate \in WednesdayDays THEN <<"itfind-pdf-downloader">> ELSE <<>>

\* how the weekly download ends: the PDF is written to /tmp and
\* itfind_pdf_path is set; the Lambda answers without success; the call
\* raises before anything is written; or the file is written and a later
\* statement of the try block raises, so that the except branch sets
\* itfind_pdf_path back to None
WeeklyOutcomes == {"saved", "failed", "raised", "lost"}

\* the path variable the weekly download leaves set
WeeklyPath(w) == IF w = "saved" THEN {"itfind_pdf_path"} ELSE {}

\* the file the weekly download leaves in /tmp
WeeklyFile(w) == IF w \in {"saved", "lost"} THEN {"itfind_pdf_path"} ELSE {}

\* mutant: the failure record is left alone after the download; it would be
\* reset at the end of a run that succeeded
FetchOkKeepsRecord(i) ==
    /\ UNCHANGED <<sender_vars, ledger_vars, redact_vars>>
    /\ UNCHANGED sends
    /\ NoneDone
    /\ pc[i] = "fetch"
    /\ resp' = [resp EXCEPT ![i] = "ok"]
    /\ IF GetTodayDate \in WednesdayDays
       THEN \E w \in WeeklyOutcomes :
               GotoWith(i, <<"download_pdf_sync">> \o Weekly, "transform",
                        {"pdf_path"} \cup WeeklyPath(w), {"pdf_path"} \cup WeeklyFile(w))
       ELSE GotoWith(i, <<"download_pdf_sync">> \o Weekly, "transform",
                     {"pdf_path"}, {"pdf_path"})
    /\ UNCHANGED <<now, runs, executions, failures, deliveries, acquired, event,
                   request_id, count, success_emails>>

\* mutant: a weekly download that fails ends the run like a failed stage
FetchOkWeeklyFatal(i) ==
    /\ UNCHANGED <<sender_vars, ledger_vars, redact_vars>>
    /\ UNCHANGED sends
    /\ NoneDone
    /\ pc[i] = "fetch"
    /\ \E rs \in StoreResponses :
          /\ failures' = ResetToday(rs).tbl
          /\ resp' = [resp EXCEPT ![i] = rs]
    /\ IF GetTodayDate \in WednesdayDays
       THEN \E w \in WeeklyOutcomes :
               IF w = "saved"
               THEN GotoWith(i, <<"download_pdf_sync", "reset_today">> \o Weekly, "transform",
                             {"pdf_path"} \cup WeeklyPath(w), {"pdf_path"} \cup WeeklyFile(w))
               ELSE Return(i, <<"download_pdf_sync", "reset_today">> \o Weekly,
                           500, FALSE, "none")
       ELSE GotoWith(i, <<"download_pdf_sync", "reset_today">> \o Weekly, "transform",
                     {"pdf_path"}, {"pdf_path"})
    /\ UNCHANGED <<now, runs, executions, deliveries, acquired, event,
                   request_id, count, success_emails>>

\* handler, step 2, download_pdf_sync() returns: reset_today, then the
\* weekly download
FetchOk(i) ==
    /\ UNCHANGED <<sender_vars, ledger_vars, redact_vars>>
    /\ UNCHANGED sends
    /\ NoneDone
    /\ pc[i] = "fetch"
    /\ \E rs \in StoreResponses :
          /\ failures' = ResetToday(rs).tbl
          /\ resp' = [resp EXCEPT ![i] = rs]
    /\ IF GetTodayDate \in WednesdayDays
       THEN \E w \in WeeklyOutcomes :
               GotoWith(i, <<"download_pdf_sync", "reset_today">> \o Weekly, "transform",
                        {"pdf_path"} \cup WeeklyPath(w), {"pdf_path"} \cup WeeklyFile(w))
       ELSE GotoWith(i, <<"download_pdf_sync", "reset_today">> \o Weekly, "transform",
                     {"pdf_path"}, {"pdf_path"})
    /\ UNCHANGED <<now, runs, executions, deliveries, acquired, event,
                   request_id, count, success_emails>>

\* handler, step 2, download_pdf_sync() raises the ValueError of a day without
\* a newspaper: the skipped result, which carries no reason
FetchNotPublished(i) ==
    /\ UNCHANGED <<sender_vars, ledger_vars, redact_vars>>
    /\ UNCHANGED sends
    /\ NoneDone
    /\ pc[i] = "fetch"
    /\ resp' = [resp EXCEPT ![i] = "none"]
    /\ Return(i, <<"download_pdf_sync">>, 200, TRUE, "none")
    /\ UNCHANGED <<shared, event, request_id, count, success_emails>>

\* mutant: a failed download gives the execution record back, so that the
\* day's run can be tried again
FetchFailedReleasing(i) ==
    /\ UNCHANGED <<sender_vars, ledger_vars, redact_vars>>
    /\ UNCHANGED sends
    /\ NoneDone
    /\ pc[i] = "fetch"
    /\ executions' = Delete(executions, GetExecutionKey(ModeOf(event[i])))
    /\ \E rs \in StoreResponses :
          LET r == IncrementFailure(rs)
          IN  /\ failures' = r.tbl
              /\ resp' = [resp EXCEPT ![i] = rs]
              /\ count' = [count EXCEPT ![i] = r.ret]
              /\ IF NotifyDue(r.ret)
                 THEN NotifyAndReturn(i, <<"download_pdf_sync", "increment_failure">>,
                                      500, FALSE, "none")
                 ELSE Return(i, <<"download_pdf_sync", "increment_failure">>,
                             500, FALSE, "none")
    /\ UNCHANGED <<now, runs, deliveries, acquired, event,
                   request_id, success_emails>>

\* mutant: the failed download is counted by both except branches
FetchFailedCountedTwice(i) ==
    /\ UNCHANGED <<sender_vars, ledger_vars, redact_vars>>
    /\ UNCHANGED sends
    /\ NoneDone
    /\ pc[i] = "fetch"
    /\ \E rs \in StoreResponses :
          LET r == IncrementFailure(rs)
          IN  /\ failures' = IF rs = "ok" THEN Put(r.tbl, GetTodayDate, r.ret + 1)
                              ELSE r.tbl
              /\ resp' = [resp EXCEPT ![i] = rs]
              /\ count' = [count EXCEPT ![i] = r.ret + 1]
              /\ IF NotifyDue(r.ret + 1)
                 THEN NotifyAndReturn(i, <<"download_pdf_sync", "increment_failure",
                                           "increment_failure">>, 500, FALSE, "none")
                 ELSE Return(i, <<"download_pdf_sync", "increment_failure",
                                  "increment_failure">>, 500, FALSE, "none")
    /\ UNCHANGED <<now, runs, executions, deliveries, acquired, event,
                   request_id, success_emails>>

\* handler, step 2, download_pdf_sync() raises anything else:
\* increment_failure, the notification from the third failure on, and the
\* re-raise that the outer except turns into the failed result
FetchFailed(i) ==
    /\ UNCHANGED <<sender_vars, ledger_vars, redact_vars>>
    /\ UNCHANGED sends
    /\ NoneDone
    /\ pc[i] = "fetch"
    /\ \E rs \in StoreResponses :
          LET r == IncrementFailure(rs)
          IN  /\ failures' = r.tbl
              /\ resp' = [resp EXCEPT ![i] = rs]
              /\ count' = [count EXCEPT ![i] = r.ret]
              /\ IF NotifyDue(r.ret)
                 THEN NotifyAndReturn(i, <<"download_pdf_sync", "increment_failure">>,
                                      500, FALSE, "none")
                 ELSE Return(i, <<"download_pdf_sync", "increment_failure">>,
                             500, FALSE, "none")
    /\ UNCHANGED <<now, runs, executions, deliveries, acquired, event,
                   request_id, success_emails>>

\* mutant: an error of process_pdf is counted like a failed download
TransformCounting(i) ==
    /\ UNCHANGED <<sender_vars, ledger_vars, redact_vars>>
    /\ UNCHANGED sends
    /\ NoneDone
    /\ pc[i] = "transform"
    /\ \E out \in {"ok", "error"} :
          IF out = "ok"
          THEN Goto(i, <<"process_pdf">>, "dispatch") /\ UNCHANGED <<failures, count>>
          ELSE /\ failures' = IncrementFailure("ok").tbl
               /\ count' = [count EXCEPT ![i] = IncrementFailure("ok").ret]
               /\ Return(i, <<"process_pdf", "increment_failure">>, 500, FALSE, "none")
    /\ UNCHANGED <<now, runs, executions, deliveries, acquired, event, request_id,
                   success_emails>>
    /\ resp' = [resp EXCEPT ![i] = "none"]

\* handler, step 3: process_pdf(pdf_path, page_info)
Transform(i) ==
    /\ UNCHANGED <<sender_vars, ledger_vars, redact_vars>>
    /\ UNCHANGED sends
    /\ NoneDone
    /\ pc[i] = "transform"
    /\ \E out \in {"ok", "error"} :
          IF out = "ok"
          THEN GotoWith(i, <<"process_pdf">>, "dispatch",
                        {"processed_pdf_path"}, {"processed_pdf_path"})
          ELSE Return(i, <<"process_pdf">>, 500, FALSE, "none")
    /\ UNCHANGED <<shared, event, request_id, count, success_emails>>
    /\ resp' = [resp EXCEPT ![i] = "none"]

\* the sends counted so far, with those that have now succeeded for the
\* invocation in slot i: they count for the day on which they are made
Sent(i, sent) ==
    IF ModeOf(event[i]) = "opr" /\ ~SkipIdempotency(event[i])
    THEN [k \in Days \X Recipients |->
             IF k[1] = GetTodayDate /\ k[2] \in sent THEN sends[k] + 1 ELSE sends[k]]
    ELSE sends

\* mutant: the run goes on to the ledger whatever the dispatch returned
DispatchUnchecked(i) ==
    /\ UNCHANGED <<sender_vars, ledger_vars, redact_vars>>
    /\ NoneDone
    /\ pc[i] = "dispatch"
    /\ \E sent \in SUBSET Recipients :
          /\ success_emails' = [success_emails EXCEPT ![i] = sent]
          /\ sends' = Sent(i, sent)
          /\ Goto(i, <<"send_pdf_bulk_email">>, "ledger")
    /\ UNCHANGED <<shared, event, request_id, count>>
    /\ resp' = [resp EXCEPT ![i] = "none"]

\* handler, step 4: send_pdf_bulk_email returns the recipients it reached;
\* with none reached handler raises
Dispatch(i) ==
    /\ UNCHANGED <<sender_vars, ledger_vars, redact_vars>>
    /\ NoneDone
    /\ pc[i] = "dispatch"
    /\ \E sent \in SUBSET Recipients :
          /\ success_emails' = [success_emails EXCEPT ![i] = sent]
          /\ sends' = Sent(i, sent)
          /\ IF sent # {} THEN Goto(i, <<"send_pdf_bulk_email">>, "ledger")
             ELSE Return(i, <<"send_pdf_bulk_email">>, 500, FALSE, "none")
    /\ UNCHANGED <<shared, event, request_id, count>>
    /\ resp' = [resp EXCEPT ![i] = "none"]

\* what upload_to_icloud does: it returns True or False, or it raises
UploadOutcomes == {"true", "false", "raised"}

\* mutant: an upload that fails ends the run like any other error
ArchiveOrFail(i, cs) ==
    \E up \in UploadOutcomes :
        /\ icloud_success' = [icloud_success EXCEPT ![i] = up]
        /\ pc' = [pc EXCEPT ![i] = "done"]
        /\ calls' = [calls EXCEPT ![i] =
                        calls[i] \o cs \o <<"upload_to_icloud", "cleanup_temp_files">>]
        /\ result' = [result EXCEPT ![i] =
                         [statusCode |-> IF up = "true" THEN 200 ELSE 500,
                          skipped |-> FALSE, reason |-> "none"]]
        /\ CleanupTempFiles(i)
        /\ UNCHANGED notice

\* handler, step 6: upload_to_icloud inside try/except Exception; False and
\* an exception are logged as warnings, and the success result is returned
ArchiveAndReturn(i, cs) ==
    \E up \in UploadOutcomes :
        /\ icloud_success' = [icloud_success EXCEPT ![i] = up]
        /\ pc' = [pc EXCEPT ![i] = "done"]
        /\ calls' = [calls EXCEPT ![i] =
                        calls[i] \o cs \o <<"upload_to_icloud", "cleanup_temp_files">>]
        /\ result' = [result EXCEPT ![i] =
                         [statusCode |-> 200, skipped |-> FALSE, reason |-> "none"]]
        /\ CleanupTempFiles(i)
        /\ UNCHANGED notice

\* mutant: the delivery is recorded in every mode
LedgerAnyMode(i) ==
    /\ UNCHANGED <<sender_vars, ledger_vars, redact_vars>>
    /\ UNCHANGED sends
    /\ NoneDone
    /\ pc[i] = "ledger"
    /\ \E rs \in StoreResponses :
          /\ deliveries' = MarkAsDelivered(success_emails[i], rs).tbl
          /\ resp' = [resp EXCEPT ![i] = rs]
          /\ ArchiveAndReturn(i, <<"mark_as_delivered">>)
    /\ UNCHANGED <<now, runs, executions, failures, acquired, event,
                   request_id, count, success_emails>>

\* handler, steps 5 and 6: tracker.mark_as_delivered(success_emails) in opr
\* mode only, then the upload and the return of the success result
Ledger(i) ==
    /\ UNCHANGED <<sender_vars, ledger_vars, redact_vars>>
    /\ UNCHANGED sends
    /\ NoneDone
    /\ pc[i] = "ledger"
    /\ IF IsTestMode(event[i])
       THEN /\ ArchiveAndReturn(i, <<>>)
            /\ resp' = [resp EXCEPT ![i] = "none"]
            /\ UNCHANGED deliveries
       ELSE \E rs \in StoreResponses :
               /\ deliveries' = MarkAsDelivered(success_emails[i], rs).tbl
               /\ resp' = [resp EXCEPT ![i] = rs]
               /\ ArchiveAndReturn(i, <<"mark_as_delivered">>)
    /\ UNCHANGED <<now, runs, executions, failures, acquired, event,
                   request_id, count, success_emails>>

\* the invocation is over: its locals are gone
Exit(i) ==
    /\ UNCHANGED <<sender_vars, ledger_vars, redact_vars>>
    /\ UNCHANGED sends
    /\ pc[i] = "done"
    /\ Idle(i)
    /\ UNCHANGED shared

Next ==
    \/ Tick
    \/ \E i \in Invocations : Start(i)
    \/ \E i \in Invocations : GateBypass(i)
    \/ \E i \in Invocations : GateCheck(i)
    \/ \E i \in Invocations : BreakerCheck(i)
    \/ \E i \in Invocations : FetchOk(i)
    \/ \E i \in Invocations : FetchNotPublished(i)
    \/ \E i \in Invocations : FetchFailed(i)
    \/ \E i \in Invocations : Transform(i)
    \/ \E i \in Invocations : Dispatch(i)
    \/ \E i \in Invocations : Ledger(i)
    \/ \E i \in Invocations : Exit(i)

Spec == Init /\ [][Next]_vars

\* the steps of the invocation in slot i once it has started
Step(i) ==
    \/ GateBypass(i)
    \/ GateCheck(i)
    \/ BreakerCheck(i)
    \/ FetchOk(i)
    \/ FetchNotPublished(i)
    \/ FetchFailed(i)
    \/ Transform(i)
    \/ Dispatch(i)
    \/ Ledger(i)
    \/ Exit(i)

\* Every call handler makes returns or raises, and the Lambda runtime runs
\* an invocation it has started: no invocation stops for ever between two
\* steps.
FairSpec == Spec /\ \A i \in Invocations : WF_vars(Step(i))

(* ----------------------- triggers without the bypass -------------------- *)
\* number of invocations the scheduled triggers start
MaxGatedRuns == 3

\* the tables start empty and no invocation is running
InitGated ==
    /\ Init
    /\ failures = EmptyTable

\* a scheduled trigger delivers its event: the mode is opr or test and the
\* event has no skip_idempotency key
StartGated(i) ==
    /\ UNCHANGED <<sender_vars, ledger_vars, redact_vars>>
    /\ UNCHANGED sends
    /\ NoneDone
    /\ pc[i] = "idle"
    /\ \A j \in Invocations : j < i => pc[j] # "idle"
    /\ runs < MaxGatedRuns
    /\ \E m \in {"opr", "test"} :
          event' = [event EXCEPT ![i] = [mode |-> m, skip_idempotency |-> "absent"]]
    /\ runs' = runs + 1
    /\ request_id' = [request_id EXCEPT ![i] = runs + 1]
    /\ pc' = [pc EXCEPT ![i] = "gate"]
    /\ UNCHANGED <<now, executions, failures, deliveries, acquired,
                   calls, resp, count, success_emails, result, notice,
                   icloud_success, paths, tmp>>

NextGated ==
    \/ Tick
    \/ \E i \in Invocations : StartGated(i)
    \/ \E i \in Invocations : GateCheck(i)
    \/ \E i \in Invocations : BreakerCheck(i)
    \/ \E i \in Invocations : FetchOk(i)
    \/ \E i \in Invocations : FetchNotPublished(i)
    \/ \E i \in Invocations : FetchFailed(i)
    \/ \E i \in Invocations : Transform(i)
    \/ \E i \in Invocations : Dispatch(i)
    \/ \E i \in Invocations : Ledger(i)
    \/ \E i \in Invocations : Exit(i)

\* handler run by triggers none of which sets skip_idempotency
SpecGated == InitGated /\ [][NextGated]_vars

(* ------------------------------ email sender --------------------------- *)
\* One call of send_bulk_email, as handler makes it in step 4, with
\* _send_via_smtp inlined. The handler passes test_mode, itfind_pdf_path and
\* itfind_info, which send_pdf_bulk_email of email_sender.py does not
\* declare; the call is taken by the two values handler unpacks from it.
Emails == 1..MaxRecipients

\* the lists get_active_recipients can return: emails are unique
RecipientLists ==
    {l \in UNION {[1..n -> Emails] : n \in 0..MaxRecipients} :
        \A a, b \in DOMAIN l : a # b => l[a] # l[b]}

InitDispatch ==
    /\ HandlerInit
    /\ recipients \in RecipientLists
    /\ SenderIdle
    /\ LedgerIdle
    /\ RedactIdle

\* return of send_bulk_email
BulkReturn(ok, emails) ==
    /\ bulk_pc' = "returned"
    /\ bulk_result' = [returned |-> TRUE, success |-> ok, emails |-> emails]

\* the for loop goes on: the next recipient, or after the last one
\* "return len(success_emails) > 0, success_emails"
LoopOn(emails) ==
    /\ idx' = idx + 1
    /\ IF idx < Len(recipients)
       THEN bulk_pc' = "create" /\ UNCHANGED bulk_result
       ELSE BulkReturn(Len(emails) > 0, emails)

\* mutant: the error of one recipient's send reaches the outer except
SendRaisedAborts ==
    /\ threw' = threw \cup {idx}
    /\ fail_count' = fail_count
    /\ idx' = idx + 1
    /\ UNCHANGED bulk_success_emails
    /\ BulkReturn(FALSE, <<>>)

\* mutant: the failed recipient is not counted
SendRaisedUncounted ==
    /\ threw' = threw \cup {idx}
    /\ fail_count' = fail_count
    /\ UNCHANGED bulk_success_emails
    /\ LoopOn(bulk_success_emails)

\* send_bulk_email, "except Exception" inside the loop: fail_count += 1 and
\* on to the next recipient
SendRaised ==
    /\ threw' = threw \cup {idx}
    /\ fail_count' = fail_count + 1
    /\ UNCHANGED bulk_success_emails
    /\ LoopOn(bulk_success_emails)

\* send_bulk_email after _send_via_smtp returned:
\* success_emails.append(recipient.email)
SendReturned ==
    /\ bulk_success_emails' = Append(bulk_success_emails, recipients[idx])
    /\ UNCHANGED <<fail_count, threw>>
    /\ LoopOn(Append(bulk_success_emails, recipients[idx]))

\* mutant: one retry too many is allowed before giving up
ExhaustedLate(rc) == rc > SMTP_MAX_RETRIES

\* _send_via_smtp: "if retry_count >= max_retries: raise"
Exhausted(rc) == rc >= SMTP_MAX_RETRIES

\* send_bulk_email up to the loop: get_active_recipients, whose error the
\* outer except turns into (False, []), and the test for an empty list
GetActiveRecipients ==
    /\ bulk_pc = "idle"
    /\ \E rs \in StoreResponses :
          IF rs = "error" \/ recipients = <<>>
          THEN /\ BulkReturn(FALSE, <<>>)
               /\ UNCHANGED <<idx, bulk_success_emails, fail_count, attempts>>
          ELSE /\ bulk_pc' = "create"
               /\ idx' = 1
               /\ bulk_success_emails' = <<>>
               /\ fail_count' = 0
               /\ attempts' = [k \in 1..Len(recipients) |-> 0]
               /\ UNCHANGED bulk_result
    /\ UNCHANGED <<recipients, retry_count, threw, outcome>>
    /\ UNCHANGED <<handler_vars, ledger_vars, redact_vars>>

\* _create_message returns: _send_via_smtp starts with retry_count = 0
CreateMessage ==
    /\ bulk_pc = "create"
    /\ bulk_pc' = "smtp"
    /\ retry_count' = 0
    /\ UNCHANGED <<recipients, idx, bulk_success_emails, fail_count, attempts,
                   threw, bulk_result, outcome>>
    /\ UNCHANGED <<handler_vars, ledger_vars, redact_vars>>

\* _create_message raises (_attach_pdf re-raises its error)
CreateMessageRaises ==
    /\ bulk_pc = "create"
    /\ SendRaised
    /\ UNCHANGED <<recipients, retry_count, attempts, outcome>>
    /\ UNCHANGED <<handler_vars, ledger_vars, redact_vars>>

\* _send_via_smtp, one pass of the while loop that ends in "return"
SmtpSent ==
    /\ bulk_pc = "smtp"
    /\ retry_count < SMTP_MAX_RETRIES
    /\ attempts' = [attempts EXCEPT ![idx] = @ + 1]
    /\ SendReturned
    /\ UNCHANGED <<recipients, retry_count, outcome>>
    /\ UNCHANGED <<handler_vars, ledger_vars, redact_vars>>

\* _send_via_smtp, one pass of the while loop that ends in
\* smtplib.SMTPException: retry_count += 1, then the raise or the sleep;
\* when the while test fails the function returns
SmtpError ==
    /\ bulk_pc = "smtp"
    /\ retry_count < SMTP_MAX_RETRIES
    /\ attempts' = [attempts EXCEPT ![idx] = @ + 1]
    /\ retry_count' = retry_count + 1
    /\ IF Exhausted(retry_count + 1)
       THEN SendRaised
       ELSE IF retry_count + 1 < SMTP_MAX_RETRIES
            THEN UNCHANGED <<bulk_pc, idx, bulk_success_emails, fail_count,
                             threw, bulk_result>>
            ELSE SendReturned
    /\ UNCHANGED <<recipients, outcome>>
    /\ UNCHANGED <<handler_vars, ledger_vars, redact_vars>>

\* _send_via_smtp, one pass of the while loop that ends in any other
\* exception: raised at once
SmtpUnexpected ==
    /\ bulk_pc = "smtp"
    /\ retry_count < SMTP_MAX_RETRIES
    /\ attempts' = [attempts EXCEPT ![idx] = @ + 1]
    /\ SendRaised
    /\ UNCHANGED <<recipients, retry_count, outcome>>
    /\ UNCHANGED <<handler_vars, ledger_vars, redact_vars>>

\* handler, step 4 after the call: "if not email_success: raise"
AfterDispatch ==
    /\ bulk_pc = "returned"
    /\ outcome = "none"
    /\ outcome' = IF ~bulk_result.success THEN "failed" ELSE "ledger"
    /\ UNCHANGED <<recipients, bulk_pc, idx, bulk_success_emails, fail_count,
                   retry_count, attempts, threw, bulk_result>>
    /\ UNCHANGED <<handler_vars, ledger_vars, redact_vars>>

NextDispatch ==
    \/ GetActiveRecipients
    \/ CreateMessage
    \/ CreateMessageRaises
    \/ SmtpSent
    \/ SmtpError
    \/ SmtpUnexpected
    \/ AfterDispatch

SpecDispatch == InitDispatch /\ [][NextDispatch]_vars

(* ---------------------------- delivery history ------------------------- *)
\* The DeliveryTracker on its own: calls of mark_as_delivered with the
\* success lists handler hands to it and calls of is_delivered_today, over
\* the days of the calendar.
InitLedger ==
    /\ HandlerInit
    /\ recipients = <<>>
    /\ SenderIdle
    /\ RedactIdle
    /\ active \in SUBSET Emails
    /\ delivered_today = "none"
    /\ marked = {}

\* tracker.mark_as_delivered(success_emails) with a list of one or more
\* emails
LedgerMark ==
    /\ \E list \in (SUBSET Emails) \ {{}}, rs \in StoreResponses :
          LET r == MarkAsDelivered(list, rs)
          IN  /\ deliveries' = r.tbl
              /\ marked' = IF r.ret
                            THEN marked \cup {<<GetTodayDate, e>> : e \in list}
                            ELSE marked
    /\ delivered_today' = "none"
    /\ UNCHANGED <<now, runs, executions, failures, event, request_id, pc, calls,
                   resp, count, success_emails, result, notice, acquired,
                   icloud_success, paths, tmp, sends>>
    /\ UNCHANGED <<active, sender_vars, redact_vars>>

\* tracker.is_delivered_today()
LedgerRead ==
    /\ \E rs \in StoreResponses :
          delivered_today' = IF IsDeliveredToday(rs) THEN "true" ELSE "false"
    /\ UNCHANGED <<active, marked, handler_vars, sender_vars, redact_vars>>

\* the KST date changes
LedgerTick ==
    /\ now < MaxDay
    /\ now' = now + 1
    /\ delivered_today' = "none"
    /\ UNCHANGED <<runs, executions, failures, deliveries, event, request_id, pc,
                   calls, resp, count, success_emails, result, notice, acquired,
                   icloud_success, paths, tmp, sends>>
    /\ UNCHANGED <<active, marked, sender_vars, redact_vars>>

NextLedger ==
    \/ LedgerMark
    \/ LedgerRead
    \/ LedgerTick

SpecLedger == InitLedger /\ [][NextLedger]_vars

(* ------------------------------- redaction ----------------------------- *)
\* An error text is a sequence of symbols: a word, a secret value, or one of
\* the characters the patterns of sanitize_error tell apart. "quote" stands
\* for the double quote. Words are written in lower case, as
\* re.IGNORECASE reads them.
Secrets == {"abc123", "xyz"}
PasswordWords == {"password", "passwd", "pwd"}
TokenWords == {"token", "secret", "key", "apikey", "api_key"}
JsonWords == {"password", "passwd", "pwd", "token", "secret", "key"}

\* number of credential-shaped fragments in the longest error text
MaxFragments == 2

\* failure_tracker.py: error_message[:500]
LastErrorLimit == 500

\* the first position from k on whose symbol is in stop, Len(s) + 1 if none:
\* where a run [^...]* that starts at k ends
RunEnd(s, k, stop) ==
    LET hits == {j \in k..Len(s) : s[j] \in stop}
    IN  IF hits = {} THEN Len(s) + 1
        ELSE CHOOSE j \in hits : \A h \in hits : j <= h

\* the first position from k on that is not white space: where \s* ends
SkipSpaces(s, k) ==
    LET hits == {j \in k..Len(s) : s[j] # " "}
    IN  IF hits = {} THEN Len(s) + 1
        ELSE CHOOSE j \in hits : \A h \in hits : j <= h

\* the position after the match of pattern p of sanitize_error that starts
\* at position k of s, 0 when the pattern does not match there
MatchEnd(p, s, k) ==
    CASE p = 1 ->
           IF k + 1 <= Len(s) /\ s[k] \in PasswordWords /\ s[k + 1] = "="
           THEN RunEnd(s, k + 2, {"&", " "}) ELSE 0
      [] p = 2 ->
           IF k + 1 <= Len(s) /\ s[k] \in TokenWords /\ s[k + 1] = "="
           THEN RunEnd(s, k + 2, {"&", " "}) ELSE 0
      [] p = 3 ->
           IF s[k] = "Authorization:" /\ SkipSpaces(s, k + 1) <= Len(s)
           THEN RunEnd(s, SkipSpaces(s, k + 1), {" "}) ELSE 0
      [] p = 4 ->
           IF /\ k + 1 <= Len(s) /\ s[k] = "Bearer" /\ s[k + 1] = " "
              /\ SkipSpaces(s, k + 1) <= Len(s)
           THEN RunEnd(s, SkipSpaces(s, k + 1), {" "}) ELSE 0
      [] p = 5 ->
           IF /\ k + 4 <= Len(s)
              /\ s[k] = "quote" /\ s[k + 1] \in JsonWords
              /\ s[k + 2] = "quote" /\ s[k + 3] = ":"
              /\ SkipSpaces(s, k + 4) <= Len(s)
              /\ s[SkipSpaces(s, k + 4)] = "quote"
              /\ RunEnd(s, SkipSpaces(s, k + 4) + 1, {"quote"}) <= Len(s)
           THEN RunEnd(s, SkipSpaces(s, k + 4) + 1, {"quote"}) + 1 ELSE 0

\* the replacement of pattern p for the match that starts at position k
Replacement(p, s, k) ==
    CASE p = 1 -> <<"password", "=", "[REDACTED]">>
      [] p = 2 -> <<"token", "=", "[REDACTED]">>
      [] p = 3 -> <<"Authorization:", " ", "[REDACTED]">>
      [] p = 4 -> <<"Bearer", " ", "[REDACTED]">>
      [] p = 5 -> <<"quote", s[k + 1], "quote", ":", " ", "quote", "[REDACTED]", "quote">>

\* re.sub(pattern, replacement, s) from position k on: the leftmost matches
\* that do not overlap are replaced
RECURSIVE Sub(_, _, _)
Sub(p, s, k) ==
    IF k > Len(s) THEN <<>>
    ELSE IF MatchEnd(p, s, k) > 0
         THEN Replacement(p, s, k) \o Sub(p, s, MatchEnd(p, s, k))
         ELSE <<s[k]>> \o Sub(p, s, k + 1)

\* sanitize_error: the five substitutions, one after the other
SanitizeError(error) ==
    Sub(5, Sub(4, Sub(3, Sub(2, Sub(1, error, 1), 1), 1), 1), 1)

\* error_message[:500]; a symbol is one character or more
Truncate(error) ==
    IF Len(error) <= LastErrorLimit THEN error ELSE SubSeq(error, 1, LastErrorLimit)

\* the credential-shaped fragments of an error text, and a plain word
Fragments ==
    {<<"x">>} \cup
    UNION {{<<"password", "=", v>>,
            <<"token", "=", v>>,
            <<"Authorization:", " ", v>>,
            <<"Bearer", " ", v>>,
            <<"Authorization:", " ", "Bearer", " ", v>>,
            <<"quote", "password", "quote", ":", " ", "quote", v, "quote">>}
           : v \in Secrets}

Separators == {<<"&">>, <<" ">>}

\* the error texts of up to n fragments
RECURSIVE MessagesOf(_)
MessagesOf(n) ==
    IF n <= 1 THEN Fragments
    ELSE MessagesOf(n - 1) \cup
         {m \o sep \o f : m \in MessagesOf(n - 1), sep \in Separators, f \in Fragments}

Messages == MessagesOf(MaxFragments)

\* The error text of an exception that download_pdf_sync or process_pdf
\* raises, on its way through the except branches of handler.
InitRedact ==
    /\ HandlerInit
    /\ recipients = <<>>
    /\ SenderIdle
    /\ LedgerIdle
    /\ error_msg \in Messages
    /\ raised_at \in {"download_pdf_sync", "process_pdf"}
    /\ redact_pc = "raised"
    /\ last_error = <<>>
    /\ notify_message = <<>>
    /\ response_error = <<>>

\* handler, the except branches of the download:
\* increment_failure(str(e)) writes last_error; from the third failure on
\* sanitize_error(str(e)) goes into the message of the notification; raise
DownloadExcept ==
    /\ redact_pc = "raised"
    /\ raised_at = "download_pdf_sync"
    /\ \E rs \in StoreResponses :
          LET r == IncrementFailure(rs)
          IN  /\ failures' = r.tbl
              /\ last_error' = IF rs = "ok" THEN Truncate(error_msg) ELSE last_error
              /\ notify_message' = IF NotifyDue(r.ret) THEN SanitizeError(error_msg)
                                   ELSE <<>>
    /\ redact_pc' = "reraised"
    /\ UNCHANGED <<error_msg, raised_at, response_error>>
    /\ UNCHANGED <<now, runs, executions, deliveries, event, request_id, pc, calls,
                   resp, count, success_emails, result, notice, acquired,
                   icloud_success, paths, tmp, sends>>
    /\ UNCHANGED <<sender_vars, ledger_vars>>

\* handler, the outer except: 'error': str(e) in the body of the 500 result
OuterExcept ==
    /\ \/ redact_pc = "reraised"
       \/ redact_pc = "raised" /\ raised_at # "download_pdf_sync"
    /\ response_error' = error_msg
    /\ redact_pc' = "returned"
    /\ UNCHANGED <<error_msg, raised_at, last_error, notify_message>>
    /\ UNCHANGED <<handler_vars, sender_vars, ledger_vars>>

NextRedact ==
    \/ DownloadExcept
    \/ OuterExcept

SpecRedact == InitRedact /\ [][NextRedact]_vars

(* ------------------------------- properties ---------------------------- *)
\* the invocation in slot i called mark_execution as its first call
Gated(i) == Len(calls[i]) > 0 /\ calls[i][1] = "mark_execution"

\* slot i takes its step out of position p
Leaves(i, p) == pc[i] = p /\ pc'[i] # p

\* the execution key of the invocation in slot i, built now
KeyOf(i) == <<now, ModeOf(event[i])>>

\* today's failure_count, 0 without a record
CountToday == IF now \in DOMAIN failures THEN failures[now] ELSE 0

\* C1: among the invocations of one logical day and one mode that do not
\* set skip_idempotency, mark_execution returns True for at most one; only
\* that one goes on to the breaker check, the fetch and the later stages.
C1_AtMostOnePassesGate ==
    /\ \A k \in ExecutionKeys : acquired[k] <= 1
    /\ \A k \in ExecutionKeys : acquired[k] = 1 <=> k \in DOMAIN executions
    /\ \A i \in Invocations :
          (pc[i] = "done" /\ result[i].reason = "already_executed_today")
             => calls[i] = <<"mark_execution", "cleanup_temp_files">>

\* two invocations of the same day and mode overlap: one has passed the gate
\* and is still running, the other one was stopped by the creation conflict
C1_Witness ==
    \E i, j \in Invocations :
        /\ i # j
        /\ ModeOf(event[i]) = ModeOf(event[j])
        /\ Gated(i) /\ pc[i] \in {"breaker", "fetch", "transform", "dispatch", "ledger"}
        /\ pc[j] = "done" /\ result[j].reason = "already_executed_today"
        /\ resp[j] = "ok"
        /\ KeyOf(j) \in DOMAIN executions
        /\ executions[KeyOf(j)].request_id = request_id[i]

\* C2: a call of mark_execution that the store answers without error
\* returns True exactly when no record exists yet for (today, mode); it
\* leaves a record for that pair, and no step ever removes a record: the
\* first call for a pair returns True and every later call False, whatever
\* happens to other pairs in between.
C2_FirstAcquiresLaterRefused ==
    [][ /\ \A k \in DOMAIN executions :
              k \in DOMAIN executions' /\ executions'[k] = executions[k]
        /\ \A i \in Invocations :
              (Leaves(i, "gate") /\ resp'[i] = "ok")
                 => /\ (pc'[i] = "breaker") <=> (KeyOf(i) \notin DOMAIN executions)
                    /\ (pc'[i] = "done") <=> (KeyOf(i) \in DOMAIN executions)
                    /\ KeyOf(i) \in DOMAIN executions'
      ]_vars

\* a later call for a pair was refused after the first caller had finished,
\* and the record still names the first caller
C2_Witness ==
    \E j \in Invocations :
        /\ pc[j] = "done" /\ result[j].reason = "already_executed_today"
        /\ resp[j] = "ok"
        /\ KeyOf(j) \in DOMAIN executions
        /\ executions[KeyOf(j)].request_id # request_id[j]
        /\ \A i \in Invocations \ {j} : pc[i] = "idle"

\* C3: an opr invocation that meets an existing record for (today, opr) ends
\* in that step with status skipped and reason already_executed_today; its
\* only calls are mark_execution and the cleanup, and the failure table and
\* the delivery table are left as they were.
C3_GateSkipDoesNothingElse ==
    [][ \A i \in Invocations :
           (/\ Leaves(i, "gate")
            /\ ~SkipIdempotency(event[i])
            /\ ModeOf(event[i]) = "opr"
            /\ <<now, "opr">> \in DOMAIN executions)
              => /\ pc'[i] = "done"
                 /\ result'[i] = [statusCode |-> 200, skipped |-> TRUE,
                                  reason |-> "already_executed_today"]
                 /\ calls'[i] = <<"mark_execution", "cleanup_temp_files">>
                 /\ failures' = failures
                 /\ deliveries' = deliveries
                 /\ executions' = executions
      ]_vars

\* an opr invocation was refused by the record of an earlier opr invocation
\* while the day has a failure record
C3_Witness ==
    \E i \in Invocations :
        /\ pc[i] = "done"
        /\ event[i].mode = "opr"
        /\ result[i].reason = "already_executed_today"
        /\ resp[i] = "ok"
        /\ <<now, "opr">> \in DOMAIN executions
        /\ executions[<<now, "opr">>].request_id # request_id[i]
        /\ now \in DOMAIN failures

\* C4: an invocation whose mark_execution met a store error other than the
\* creation conflict ends with the failed result, not with the skipped
\* result of a duplicate trigger.
C4_StoreErrorAtGateFails ==
    \A i \in Invocations :
        (/\ pc[i] = "done"
         /\ calls[i] = <<"mark_execution", "cleanup_temp_files">>
         /\ resp[i] = "error")
           => /\ result[i].statusCode = 500
              /\ result[i].reason # "already_executed_today"

\* C5: an invocation past the gate has called mark_execution first, before
\* any other call, unless its event sets skip_idempotency to a true value;
\* only such an event bypasses the gate.
C5_BypassOnlyByFlag ==
    \A i \in Invocations :
        pc[i] \notin {"idle", "gate"}
           => (Gated(i) <=> event[i].skip_idempotency # "true")

\* one invocation without the flag has passed the gate by the conditional
\* create while another one with the flag has bypassed it
C5_Witness ==
    \E i, j \in Invocations :
        /\ pc[i] = "fetch" /\ event[i].skip_idempotency = "absent"
        /\ calls[i] = <<"mark_execution", "should_skip_today">>
        /\ pc[j] = "fetch" /\ event[j].skip_idempotency = "true"
        /\ calls[j] = <<"should_skip_today">>

TrippedCalls ==
    {<<"should_skip_today", "_send_admin_notification", "cleanup_temp_files">>,
     <<"mark_execution", "should_skip_today", "_send_admin_notification",
       "cleanup_temp_files">>}

\* C11: an invocation that reads the breaker as tripped sends one escalation
\* notification and ends in that step with status skipped and reason
\* too_many_failures; it makes no call of the fetch, the transform or the
\* dispatch, and the failure table is left as it was.
C11_TrippedBreakerNotifiesAndSkips ==
    [][ \A i \in Invocations :
           (/\ Leaves(i, "breaker")
            /\ \/ pc'[i] = "done"
               \/ resp'[i] = "ok" /\ CountToday >= FailureLimit)
              => /\ pc'[i] = "done"
                 /\ result'[i] = [statusCode |-> 200, skipped |-> TRUE,
                                  reason |-> "too_many_failures"]
                 /\ calls'[i] \in TrippedCalls
                 /\ notice'[i].transmissions = 1
                 /\ failures' = failures
                 /\ deliveries' = deliveries
                 /\ executions' = executions
      ]_vars

\* C12: when download_pdf_sync raises the not-published condition the
\* invocation ends in that step with status skipped and reason
\* not_published; the failure table is left as it was and there is no
\* notification, no dispatch and no write of the delivery table.
C12_NotPublishedSkipsWithReason ==
    [][ \A i \in Invocations :
           (Leaves(i, "fetch") /\ pc'[i] = "done" /\ result'[i].statusCode = 200)
              => /\ result'[i].skipped
                 /\ result'[i].reason = "not_published"
                 /\ calls'[i] = calls[i] \o <<"download_pdf_sync", "cleanup_temp_files">>
                 /\ notice'[i] = NoNotice
                 /\ failures' = failures
                 /\ deliveries' = deliveries
      ]_vars

\* how often call c occurs among the calls cs
Occurrences(cs, c) == Cardinality({k \in 1..Len(cs) : cs[k] = c})

\* the invocation in slot i has returned the failed result out of the fetch
\* stage
FetchRaised(i) ==
    /\ pc[i] = "done" /\ result[i].statusCode = 500
    /\ Occurrences(calls[i], "download_pdf_sync") = 1
    /\ Occurrences(calls[i], "reset_today") = 0

\* the invocation in slot i has returned out of the transform stage
TransformRaised(i) ==
    /\ pc[i] = "done"
    /\ Len(calls[i]) >= 2
    /\ calls[i][Len(calls[i]) - 1] = "process_pdf"

\* C13 as stated: an invocation whose fetch or transform raised has called
\* increment_failure exactly once and ends failed.
C13_FetchOrTransformErrorCounted ==
    \A i \in Invocations :
        (FetchRaised(i) \/ TransformRaised(i))
           => /\ result[i].statusCode = 500
              /\ Occurrences(calls[i], "increment_failure") = 1

\* C13 amended: an invocation whose download raises an error other than
\* not-published calls increment_failure exactly once before it returns the
\* failed result: the day's count rises by one when the store answers the
\* update and is unchanged when the update raises. An invocation whose
\* process_pdf raises returns the failed result without calling
\* increment_failure and leaves the failure table as it was.
C13_OnlyFetchErrorCounted ==
    [][ \A i \in Invocations :
           /\ (Leaves(i, "fetch") /\ FetchRaised(i)')
                 => /\ Occurrences(calls'[i], "increment_failure") = 1
                    /\ resp'[i] = "ok" =>
                          /\ now \in DOMAIN failures'
                          /\ failures'[now] = CountToday + 1
                    /\ resp'[i] = "error" => failures' = failures
           /\ (Leaves(i, "transform") /\ pc'[i] = "done")
                 => /\ TransformRaised(i)'
                    /\ result'[i] = [statusCode |-> 500, skipped |-> FALSE,
                                     reason |-> "none"]
                    /\ Occurrences(calls'[i], "increment_failure") = 0
                    /\ failures' = failures
      ]_vars

\* process_pdf raised in an invocation while the day has a failure record,
\* which stays as it is
C13_Witness ==
    \E i \in Invocations :
        /\ TransformRaised(i)
        /\ result[i].statusCode = 500
        /\ Occurrences(calls[i], "increment_failure") = 0
        /\ CountToday >= 1

\* C14: an invocation whose fetch failed has sent a notification exactly
\* when the count returned by increment_failure is 3 or more, at the
\* crossing to 3 and on every later failure of the day; with a returned
\* count of 1 or 2 it has sent none.
C14_NotifiedIffCountAtLeastThree ==
    \A i \in Invocations :
        FetchRaised(i)
           => /\ count[i] >= 1
              /\ count[i] >= 3
                    => /\ Occurrences(calls[i], "_send_admin_notification") = 1
                       /\ notice[i].transmissions = 1
              /\ count[i] < 3
                    => /\ Occurrences(calls[i], "_send_admin_notification") = 0
                       /\ notice[i] = NoNotice

\* the recipients from position k on whose send did not raise, in the order
\* of the list
RECURSIVE NotThrownFrom(_)
NotThrownFrom(k) ==
    IF k > Len(recipients) THEN <<>>
    ELSE (IF k \in threw THEN <<>> ELSE <<recipients[k]>>) \o NotThrownFrom(k + 1)

\* send_bulk_email has returned out of its loop
LoopReturned == bulk_result.returned /\ Len(attempts) > 0

\* C15: for every recipient list and every subset of recipients whose send
\* raises, send_bulk_email has gone through every recipient when it returns,
\* and it returns exactly the recipients whose send did not raise, in the
\* order of the list, with success true exactly when that list is not empty:
\* (False, []) when every send raised.
C15_ReturnsExactlyTheSendsThatDidNotThrow ==
    LoopReturned
       => /\ idx = Len(recipients) + 1
          /\ \A k \in 1..Len(recipients) : k \in threw \/ attempts[k] >= 1
          /\ bulk_result.emails = NotThrownFrom(1)
          /\ bulk_result.success <=> bulk_result.emails # <<>>
          /\ threw = 1..Len(recipients)
                => bulk_result = [returned |-> TRUE, success |-> FALSE,
                                  emails |-> <<>>]

\* of three recipients that are not in ascending order the send of the
\* second one raised: the other two are returned in the order of the list
C15_Witness ==
    /\ recipients = <<3, 1, 2>>
    /\ threw = {2}
    /\ attempts = <<1, 3, 2>>
    /\ bulk_result = [returned |-> TRUE, success |-> TRUE, emails |-> <<3, 2>>]

\* C16: when the list of active recipients is empty send_bulk_email returns
\* (False, []) and the handler ends the invocation with a skipped outcome of
\* its own for no recipients, not with the failed outcome.
C16_NoRecipientsIsSkippedNotFailed ==
    (recipients = <<>> /\ bulk_result.returned)
       => /\ bulk_result = [returned |-> TRUE, success |-> FALSE, emails |-> <<>>]
          /\ outcome \in {"none", "skipped"}

\* positions of recipients whose email is in the success list
SuccessPositions ==
    {k \in 1..Len(recipients) :
        \E j \in 1..Len(bulk_success_emails) : bulk_success_emails[j] = recipients[k]}

\* C17: at every step of the loop of send_bulk_email the success list and
\* the recipients counted as failed are disjoint, the success list holds
\* only recipients of the list, and its size plus fail_count is the number
\* of recipients gone through so far; when the loop has ended the two parts
\* cover the whole list.
C17_PartitionOfProcessedRecipients ==
    Len(attempts) > 0
       => /\ SuccessPositions \cap threw = {}
          /\ \A j \in 1..Len(bulk_success_emails) :
                \E k \in 1..Len(recipients) : bulk_success_emails[j] = recipients[k]
          /\ Cardinality(SuccessPositions) = Len(bulk_success_emails)
          /\ Cardinality(threw) = fail_count
          /\ Len(bulk_success_emails) + fail_count = idx - 1
          /\ SuccessPositions \cup threw = 1..(idx - 1)
          /\ bulk_pc = "returned"
                => SuccessPositions \cup threw = 1..Len(recipients)

\* in the middle of the loop: the first recipient was reached, the second
\* one failed, the third one is at its second SMTP attempt
C17_Witness ==
    /\ recipients = <<2, 3, 1>>
    /\ bulk_pc = "smtp"
    /\ idx = 3
    /\ retry_count = 1
    /\ bulk_success_emails = <<2>>
    /\ fail_count = 1
    /\ threw = {2}

\* C18: for one recipient _send_via_smtp starts at most SMTP_MAX_RETRIES
\* SMTP conversations: while it is under way every conversation so far ended
\* in an SMTP error, so it returns at the first one that succeeds; the third
\* SMTP error in a row is raised, counted as the failure of that recipient,
\* and the loop goes on with the next recipient; a fourth conversation is
\* never started. An error that is no SMTP error is raised at once.
C18_AtMostThreeAttemptsPerRecipient ==
    /\ [](/\ retry_count <= SMTP_MAX_RETRIES
          /\ \A k \in 1..Len(attempts) : attempts[k] <= SMTP_MAX_RETRIES
          /\ bulk_pc = "smtp"
                => /\ retry_count < SMTP_MAX_RETRIES
                   /\ attempts[idx] = retry_count
          /\ \A k \in SuccessPositions : attempts[k] \in 1..SMTP_MAX_RETRIES)
    /\ [][ /\ (retry_count' # retry_count /\ retry_count' = SMTP_MAX_RETRIES)
                => /\ idx \in threw' \ threw
                   /\ fail_count' = fail_count + 1
                   /\ bulk_success_emails' = bulk_success_emails
                   /\ idx' = idx + 1
                   /\ IF idx < Len(recipients)
                      THEN bulk_pc' = "create"
                      ELSE bulk_pc' = "returned"
           /\ (bulk_pc = "smtp" /\ attempts' # attempts)
                => /\ attempts'[idx] = attempts[idx] + 1
                   /\ \A k \in 1..Len(attempts) : k # idx => attempts'[k] = attempts[k]
      ]_vars

\* the first of two recipients was given up after three SMTP errors and the
\* second one was then reached at the first attempt
C18_Witness ==
    /\ Len(recipients) = 2
    /\ attempts = <<3, 1>>
    /\ threw = {1}
    /\ fail_count = 1
    /\ bulk_result = [returned |-> TRUE, success |-> TRUE,
                      emails |-> <<recipients[2]>>]

\* C19: an invocation that has called _send_admin_notification has made
\* exactly one transmission attempt of the notification, and the call has
\* raised nothing into the handler: the invocation ends with the result of
\* the path that called it, skipped for the tripped breaker and failed for
\* the failed fetch.
C19_NotifierTransmitsOnceNeverRaises ==
    \A i \in Invocations :
        notice[i].called
           => /\ notice[i].transmissions = 1
              /\ ~notice[i].raised
              /\ pc[i] = "done"
              /\ \/ result[i] = [statusCode |-> 200, skipped |-> TRUE,
                                 reason |-> "too_many_failures"]
                 \/ result[i] = [statusCode |-> 500, skipped |-> FALSE,
                                 reason |-> "none"]

\* the calls that are the stages of an invocation, in the order of handler
Stages ==
    <<"mark_execution", "should_skip_today", "download_pdf_sync", "process_pdf",
      "send_pdf_bulk_email", "mark_as_delivered", "upload_to_icloud">>

\* the position of call c among the stages, 0 for a call that is no stage
StageRank(c) ==
    IF \E k \in 1..Len(Stages) : Stages[k] = c
    THEN CHOOSE k \in 1..Len(Stages) : Stages[k] = c
    ELSE 0

\* call c is among the calls cs
Has(cs, c) == Occurrences(cs, c) >= 1

\* call c of cs comes right after call b
RightAfter(cs, b, c) ==
    \A k \in 1..Len(cs) : cs[k] = c => k > 1 /\ cs[k - 1] = b

\* the calls made so far by the invocation in slot i keep the order of the
\* stages, and each stage has what it needs behind it
StagesInOrder(i) ==
    LET cs == calls[i]
    IN  /\ \A a, b \in 1..Len(cs) :
              (a < b /\ StageRank(cs[a]) > 0 /\ StageRank(cs[b]) > 0)
                 => StageRank(cs[a]) < StageRank(cs[b])
        /\ Has(cs, "should_skip_today")
              => Has(cs, "mark_execution") \/ SkipIdempotency(event[i])
        /\ Has(cs, "download_pdf_sync") => Has(cs, "should_skip_today")
        /\ Has(cs, "process_pdf")
              => /\ Has(cs, "download_pdf_sync")
                 /\ Has(cs, "reset_today")
                 /\ ~Has(cs, "increment_failure")
        /\ Has(cs, "send_pdf_bulk_email")
              => RightAfter(cs, "process_pdf", "send_pdf_bulk_email")
        /\ Has(cs, "mark_as_delivered")
              => /\ RightAfter(cs, "send_pdf_bulk_email", "mark_as_delivered")
                 /\ success_emails[i] # {}
                 /\ ~IsTestMode(event[i])
        /\ Has(cs, "upload_to_icloud")
              => /\ Has(cs, "send_pdf_bulk_email")
                 /\ success_emails[i] # {}
                 /\ IsTestMode(event[i]) \/ Has(cs, "mark_as_delivered")

\* C20: in every invocation the stages occur only in the order gate check,
\* breaker check, fetch, transform, dispatch, ledger update, archive. The
\* breaker is read only after the gate was passed, by a mark_execution that
\* returned True, or bypassed; the fetch starts only after the breaker read
\* as clear; the dispatch only after download and process_pdf returned; the
\* ledger update only after a dispatch that reached at least one recipient;
\* the archive only after the ledger step.
C20_StagesInOrder ==
    /\ [](\A i \in Invocations : StagesInOrder(i))
    /\ [][ \A i \in Invocations :
              /\ (Leaves(i, "gate") /\ pc'[i] # "done")
                    => /\ pc'[i] = "breaker"
                       /\ \/ SkipIdempotency(event[i]) /\ calls'[i] = <<>>
                          \/ /\ ~SkipIdempotency(event[i])
                             /\ calls'[i] = <<"mark_execution">>
                             /\ resp'[i] = "ok"
                             /\ acquired'[KeyOf(i)] = acquired[KeyOf(i)] + 1
              /\ (Leaves(i, "breaker") /\ pc'[i] # "done")
                    => /\ pc'[i] = "fetch"
                       /\ ~(resp'[i] = "ok" /\ CountToday >= FailureLimit)
              /\ (Leaves(i, "fetch") /\ pc'[i] # "done") => pc'[i] = "transform"
              /\ (Leaves(i, "transform") /\ pc'[i] # "done") => pc'[i] = "dispatch"
              /\ (Leaves(i, "dispatch") /\ pc'[i] # "done")
                    => pc'[i] = "ledger" /\ success_emails'[i] # {}
              /\ Leaves(i, "ledger") => pc'[i] = "done"
      ]_vars

\* an opr invocation went through every stage: it passed the gate, read the
\* breaker clear, reached a recipient and wrote the ledger
C20_Witness ==
    \E i \in Invocations :
        /\ pc[i] = "done"
        /\ ~IsTestMode(event[i])
        /\ calls[i] = <<"mark_execution", "should_skip_today", "download_pdf_sync",
                        "reset_today", "process_pdf", "send_pdf_bulk_email",
                        "mark_as_delivered", "upload_to_icloud",
                        "cleanup_temp_files">>
        /\ result[i] = [statusCode |-> 200, skipped |-> FALSE, reason |-> "none"]
        /\ success_emails[i] # {}

C24_MarksAreKeptPerRecipient ==
    /\ \A m \in marked :
          m[1] \in DOMAIN deliveries /\ m[2] \in deliveries[m[1]]
    /\ \A d \in DOMAIN deliveries :
          \A e \in deliveries[d] : <<d, e>> \in marked

\* the answer of is_delivered_today just returned is True exactly when
\* every active recipient is recorded as delivered for today, which is the
\* case without any active recipient.
AllActiveDeliveredToday ==
    \A e \in active :
        GetTodayDate \in DOMAIN deliveries /\ e \in deliveries[GetTodayDate]

\* C25: is_delivered_today returns True when there is no active recipient
\* or every active recipient is recorded as delivered for today, and False
\* in every other case, also when only some of them are.
C25_DeliveredTodayIffAllActive ==
    delivered_today # "none"
       => (delivered_today = "true" <=> AllActiveDeliveredToday)

\* a secret value occurs in the text
Leaks(text) == \E k \in 1..Len(text) : text[k] \in Secrets

\* the fixed placeholder occurs in the text
HasPlaceholder(text) == \E k \in 1..Len(text) : text[k] = "[REDACTED]"

\* C26: the error text in the body of the failed result is the raised text
\* after sanitize_error, and no secret value of the raised text is in it.
C26_ResponseErrorIsRedacted ==
    redact_pc = "returned"
       => /\ response_error = SanitizeError(error_msg)
          /\ ~Leaks(response_error)

\* C27: the error text written to last_error of the failure record and the
\* error text handed to the notification are the raised text after
\* sanitize_error; no text that has not gone through it is written or sent.
C27_StoredAndNotifiedErrorIsRedacted ==
    /\ last_error # <<>> => last_error = Truncate(SanitizeError(error_msg))
    /\ notify_message # <<>> => notify_message = SanitizeError(error_msg)

\* C28: for every error text built from the fragments password=V, token=V,
\* Authorization: V, Bearer V and Authorization: Bearer V, the text
\* sanitize_error returns has the placeholder and no secret value in it.
C28_SanitizedTextHasNoSecret ==
    Leaks(error_msg)
       => /\ HasPlaceholder(SanitizeError(error_msg))
          /\ ~Leaks(SanitizeError(error_msg))

\* the three outcomes of an invocation: success, skipped, failed
Outcome(r) ==
    IF r.statusCode = 200 /\ ~r.skipped THEN "success"
    ELSE IF r.statusCode = 200 /\ r.skipped THEN "skipped"
    ELSE IF r.statusCode = 500 /\ ~r.skipped THEN "failed"
    ELSE "none"

C30_ExecutionRecordWrittenOnce ==
    /\ [](/\ \A k \in DOMAIN executions :
                /\ k \in ExecutionKeys
                /\ acquired[k] = 1
                /\ executions[k].date = k[1]
                /\ executions[k].mode = k[2]
                /\ executions[k].request_id \in 1..runs
          /\ \A k1, k2 \in DOMAIN executions :
                executions[k1].request_id = executions[k2].request_id => k1 = k2
          /\ \A i \in Invocations :
                (Gated(i) /\ pc[i] \in {"breaker", "fetch", "transform", "dispatch", "ledger"})
                   => \E k \in DOMAIN executions :
                         /\ k[2] = ModeOf(event[i])
                         /\ executions[k].request_id = request_id[i])
    /\ [][ \A k \in DOMAIN executions :
              /\ k \in DOMAIN executions'
              /\ executions'[k].request_id = executions[k].request_id
              /\ executions'[k].date = executions[k].date
              /\ executions'[k].mode = executions[k].mode
              /\ acquired'[k] = acquired[k]
         ]_vars

\* the second trigger of a day and mode was refused, and the one record of
\* the table is still the one written for the first trigger
C30_Witness ==
    \E j \in Invocations :
        /\ pc[j] = "done"
        /\ request_id[j] = 2
        /\ result[j].reason = "already_executed_today"
        /\ executions = [k \in {KeyOf(j)} |->
                           [request_id |-> 1, mode |-> ModeOf(event[j]), date |-> now]]
        /\ acquired[KeyOf(j)] = 1

\* C31: while today's failure record holds a count of 3 or more, no
\* invocation makes its call of download_pdf_sync.
C31_NoFetchWhileTripped ==
    [][ \A i \in Invocations :
           Leaves(i, "fetch") => CountToday < FailureLimit ]_vars

\* the invocation in slot i has returned after mark_execution let it pass
PassedAndReturned(i) ==
    /\ pc[i] = "done"
    /\ Gated(i)
    /\ result[i].reason # "already_executed_today"

\* C32: the execution record is written before the run and outlives it: an
\* invocation that passed the gate and returned failed or skipped, or that is
\* still somewhere between the gate and its return, has left the record that
\* carries its request id; and every invocation without skip_idempotency
\* that reaches the gate while the record of its day and mode exists ends
\* there, skipped with already_executed_today, without a download, a
\* dispatch or a change of any table.
C32_FailedRunIsNotRetriedThatDay ==
    /\ [](\A i \in Invocations :
             (PassedAndReturned(i) \/ (Gated(i) /\ pc[i] \notin {"idle", "gate", "done"}))
                => \E k \in DOMAIN executions :
                      /\ k[2] = ModeOf(event[i])
                      /\ executions[k].request_id = request_id[i])
    /\ [][ \A j \in Invocations :
              (/\ Leaves(j, "gate")
               /\ ~SkipIdempotency(event[j])
               /\ KeyOf(j) \in DOMAIN executions)
                 => /\ pc'[j] = "done"
                    /\ result'[j] = [statusCode |-> 200, skipped |-> TRUE,
                                     reason |-> "already_executed_today"]
                    /\ ~Has(calls'[j], "download_pdf_sync")
                    /\ ~Has(calls'[j], "send_pdf_bulk_email")
                    /\ success_emails'[j] = {}
                    /\ <<executions, failures, deliveries>>' = <<executions, failures, deliveries>>
         ]_vars

\* the first invocation of the day in mode dev passed the gate and ended
\* failed in its download, which left the day's count at 1; the second one
\* of that day and mode was refused
C32_Witness ==
    \E j \in Invocations :
        /\ pc[j] = "done"
        /\ event[j] = [mode |-> "dev", skip_idempotency |-> "absent"]
        /\ request_id[j] = 2
        /\ result[j] = [statusCode |-> 200, skipped |-> TRUE,
                        reason |-> "already_executed_today"]
        /\ KeyOf(j) \in DOMAIN executions
        /\ executions[KeyOf(j)].request_id = 1
        /\ CountToday = 1
        /\ \A i \in Invocations \ {j} : pc[i] = "idle"

\* the modes for which mark_execution let an invocation pass on day d
GatedModes(d) == {m \in Modes : <<d, m>> \in DOMAIN executions}

\* C33: with no skip_idempotency anywhere, the failure_count of a day is at
\* most the number of modes that passed the gate on that day; with the
\* modes opr and test it stays below 3, no invocation is skipped for
\* too_many_failures and none calls the administrator notification.
C33_CountBoundedByGatedModes ==
    /\ \A d \in DOMAIN failures :
          /\ failures[d] <= Cardinality(GatedModes(d))
          /\ failures[d] < FailureLimit
    /\ \A i \in Invocations :
          /\ result[i].reason # "too_many_failures"
          /\ ~notice[i].called

FailureWrites(cs) ==
    Occurrences(cs, "increment_failure") + Occurrences(cs, "reset_today")

\* C35: an invocation calls increment_failure or reset_today at most once
\* altogether, and _send_admin_notification at most once; a step that
\* changes the failure table is the step of one invocation that had not
\* written it before, and it either adds one to today's count and ends
\* failed, or deletes today's record and goes on to the transform.
C35_OneFailureWritePerInvocation ==
    /\ [](\A i \in Invocations :
             /\ FailureWrites(calls[i]) <= 1
             /\ Occurrences(calls[i], "_send_admin_notification") <= 1)
    /\ [][ failures' # failures =>
              \E i \in Invocations :
                 /\ pc[i] = "fetch"
                 /\ FailureWrites(calls[i]) = 0
                 /\ FailureWrites(calls'[i]) = 1
                 /\ \A j \in Invocations \ {i} : calls'[j] = calls[j]
                 /\ \/ /\ Has(calls'[i], "increment_failure")
                       /\ failures' = Put(failures, now, CountToday + 1)
                       /\ pc'[i] = "done"
                       /\ result'[i].statusCode = 500
                    \/ /\ Has(calls'[i], "reset_today")
                       /\ failures' = Delete(failures, now)
                       /\ pc'[i] = "transform"
         ]_vars

\* an invocation read the breaker as clear, its download failed and made
\* the count 3, and it called the notification once before it returned,
\* while another invocation has reset nothing yet
C35_Witness ==
    \E i, j \in Invocations :
        /\ pc[i] = "done"
        /\ Occurrences(calls[i], "should_skip_today") = 1
        /\ Occurrences(calls[i], "increment_failure") = 1
        /\ Occurrences(calls[i], "reset_today") = 0
        /\ Occurrences(calls[i], "_send_admin_notification") = 1
        /\ CountToday = FailureLimit
        /\ count[i] = FailureLimit
        /\ pc[j] = "fetch"

\* C36 as stated: an invocation whose download succeeded leaves no failure
\* record for the day, also when it ends failed in transform or dispatch.
C36_NoRecordAfterSuccessfulFetch ==
    \A i \in Invocations :
        (pc[i] = "done" /\ Has(calls[i], "reset_today"))
           => now \notin DOMAIN failures

\* C36 amended: reset_today is called right after download_pdf_sync has
\* returned, before process_pdf and the dispatch; when the store answers the
\* delete, the record of the day of the call is gone after that step, and
\* when the delete raises the table stays as it was; no later step of that
\* invocation writes the failure table, whether it ends in success or failed
\* in transform or dispatch.
C36_ResetRightAfterFetchAndNoLaterWrite ==
    /\ [](\A i \in Invocations :
             /\ RightAfter(calls[i], "download_pdf_sync", "reset_today")
             /\ (Has(calls[i], "process_pdf") \/ Has(calls[i], "send_pdf_bulk_email"))
                   => Occurrences(calls[i], "reset_today") = 1)
    /\ [][ \A i \in Invocations :
              /\ (Leaves(i, "fetch") /\ pc'[i] = "transform")
                    => /\ Has(calls'[i], "reset_today")
                       /\ resp'[i] = "ok" => failures' = Delete(failures, now)
                       /\ resp'[i] = "error" => failures' = failures
              /\ (pc[i] \in {"transform", "dispatch", "ledger"} /\ pc'[i] # pc[i])
                    => failures' = failures
         ]_vars

\* the download of an invocation succeeded and the delete was answered; the
\* invocation then ended failed in its dispatch, and the day has no record
C36_Witness ==
    \E i \in Invocations :
        /\ pc[i] = "done"
        /\ result[i].statusCode = 500
        /\ Has(calls[i], "reset_today")
        /\ calls[i][Len(calls[i]) - 1] = "send_pdf_bulk_email"
        /\ now \notin DOMAIN failures
        /\ \A j \in Invocations \ {i} : pc[j] = "idle"

\* C37: an invocation whose event has no mode, or a mode other than opr,
\* runs in test mode, and no step of it writes the delivery table; the gate
\* looks at the record of the day and of the mode as given (test when the
\* event has none) and at no other: when the store answers, the invocation
\* passes exactly when that record does not exist yet, whatever records
\* other modes have for the day, and it leaves the record under that key.
C37_NonOprIsTestModeKeyedByRawMode ==
    /\ [](\A i \in Invocations :
             IsTestMode(event[i]) <=> event[i].mode # "opr")
    /\ [][ \A i \in Invocations :
              (event[i].mode # "opr" /\ pc[i] # "idle" /\ pc'[i] # pc[i])
                 => /\ deliveries' = deliveries
                    /\ ~Has(calls'[i], "mark_as_delivered")
                    /\ (Leaves(i, "gate") /\ ~SkipIdempotency(event[i]) /\ resp'[i] = "ok")
                          => LET key == <<now, IF event[i].mode = "absent" THEN "test"
                                               ELSE event[i].mode>>
                             IN  /\ (pc'[i] = "breaker") <=> (key \notin DOMAIN executions)
                                 /\ key \in DOMAIN executions'
                                 /\ \A k \in DOMAIN executions' \ {key} :
                                       k \in DOMAIN executions
         ]_vars

\* two invocations of one day, one without a mode and one with mode dev,
\* have both passed the gate, each under its own key; the second has gone
\* through to the success result, and the delivery table has no item
C37_Witness ==
    \E i, j \in Invocations :
        /\ event[i] = [mode |-> "absent", skip_idempotency |-> "absent"]
        /\ event[j] = [mode |-> "dev", skip_idempotency |-> "absent"]
        /\ pc[i] = "dispatch" /\ Gated(i)
        /\ pc[j] = "done" /\ Gated(j)
        /\ result[j] = [statusCode |-> 200, skipped |-> FALSE, reason |-> "none"]
        /\ success_emails[j] # {}
        /\ <<now, "test">> \in DOMAIN executions
        /\ <<now, "dev">> \in DOMAIN executions
        /\ executions[<<now, "test">>].request_id = request_id[i]
        /\ executions[<<now, "dev">>].request_id = request_id[j]
        /\ deliveries = EmptyTable

\* the tracker calls that build their key from the date of the call
DatedCalls == {"should_skip_today", "increment_failure", "reset_today",
               "mark_as_delivered"}

\* C38: every call of should_skip_today, increment_failure, reset_today and
\* mark_as_delivered that an invocation makes after mark_execution uses the
\* day of the execution key under which that invocation passed the gate.
C38_OneLogicalDayPerInvocation ==
    [][ \A i \in Invocations :
           (/\ Gated(i)
            /\ Len(calls'[i]) > Len(calls[i])
            /\ \E n \in (Len(calls[i]) + 1)..Len(calls'[i]) : calls'[i][n] \in DatedCalls)
              => \E k \in DOMAIN executions :
                    /\ executions[k].request_id = request_id[i]
                    /\ k[1] = GetTodayDate
      ]_vars

\* the invocation in slot i has called the weekly download
CalledWeekly(cs) == Has(cs, "itfind-pdf-downloader")

\* C39: the step in which the weekly download is called leads to the
\* transform whatever the download answers: no result is returned, no
\* failure is counted and no notification is called, the failure table is
\* as reset_today leaves it, and after a download that failed the path
\* variables are those of a day without the weekly download. An invocation
\* that called the weekly download and ends failed has failed in process_pdf
\* or in the dispatch, and has not counted a failure.
C39_WeeklyFailureChangesNothing ==
    /\ [](\A i \in Invocations :
             (CalledWeekly(calls[i]) /\ pc[i] = "done")
                => /\ ~Has(calls[i], "increment_failure")
                   /\ count[i] = 0
                   /\ result[i].statusCode = 500
                         => calls[i][Len(calls[i]) - 1]
                               \in {"process_pdf", "send_pdf_bulk_email"})
    /\ [][ \A i \in Invocations :
              (Leaves(i, "fetch") /\ CalledWeekly(calls'[i]))
                 => /\ pc'[i] = "transform"
                    /\ result'[i] = NoResult
                    /\ notice'[i] = NoNotice
                    /\ count'[i] = 0
                    /\ failures' \in {failures, Delete(failures, now)}
                    /\ "pdf_path" \in paths'[i]
                    /\ "itfind_pdf_path" \notin paths'[i] => paths'[i] = {"pdf_path"}
         ]_vars

\* on a Wednesday the weekly download failed, itfind_pdf_path is not set,
\* and the invocation went on through transform, dispatch and upload to the
\* success result
C39_Witness ==
    \E i \in Invocations :
        /\ pc[i] = "done"
        /\ now \in WednesdayDays
        /\ CalledWeekly(calls[i])
        /\ paths[i] = {"pdf_path", "processed_pdf_path"}
        /\ Has(calls[i], "process_pdf")
        /\ Has(calls[i], "send_pdf_bulk_email")
        /\ Has(calls[i], "upload_to_icloud")
        /\ success_emails[i] # {}
        /\ result[i] = [statusCode |-> 200, skipped |-> FALSE, reason |-> "none"]

====
